---- MODULE Spec2Model ----
(***************************************************************************)
(* Model of src/app.py: the Flask service with the /summarize and /ask     *)
(* endpoints, the process-wide document_cache, the temp files written by   *)
(* summarize and the streaming generators that relay the completion.       *)
(*                                                                         *)
(* Requests run on worker threads (Flask's threaded server); a thread     *)
(* takes a step whenever it reaches a statement that touches shared state  *)
(* (the temp directory, document_cache) or the completion provider.        *)
(*                                                                         *)
(* Text is kept run-length encoded: a string is a sequence of runs         *)
(* [ch, n] (n >= 1, adjacent runs carry different characters), so that      *)
(* 15,000-character documents are ordinary small values and slicing and    *)
(* stripping are computed exactly.  File names are tuples of characters.   *)
(***************************************************************************)
EXTENDS Integers, Sequences, FiniteSets, TLC

\* ------------------------------------------------------------- bounds
NThreads == 2       \* worker threads serving requests concurrently
MaxCalls == 3       \* requests accepted in one behaviour
MaxChunks == 2      \* chunks one completion stream delivers at most

\* ---------------------------------------------------- program constants
DocLimit == 15000   \* extracted_text[:15000], document_text[:15000]

Threads == 1 .. NThreads

\* ---------------------------------------------------------------- text
Run(c, k) == [ch |-> c, n |-> k]

SP == " "
NL == "\n"
Whitespace == {SP, NL}

EmptyText == << >>

RECURSIVE TextLen(_)
TextLen(t) == IF t = << >> THEN 0 ELSE Head(t).n + TextLen(Tail(t))

\* a + b on strings
Concat(a, b) ==
    IF a = << >> THEN b
    ELSE IF b = << >> THEN a
    ELSE IF a[Len(a)].ch = b[1].ch
         THEN SubSeq(a, 1, Len(a) - 1)
              \o << Run(b[1].ch, a[Len(a)].n + b[1].n) >>
              \o Tail(b)
         ELSE a \o b

\* sep.join(parts)
RECURSIVE Join(_, _)
Join(sep, parts) ==
    IF parts = << >> THEN EmptyText
    ELSE IF Len(parts) = 1 THEN parts[1]
    ELSE Concat(Concat(parts[1], sep), Join(sep, Tail(parts)))

RECURSIVE LStrip(_)
LStrip(t) ==
    IF t = << >> THEN t
    ELSE IF Head(t).ch \in Whitespace THEN LStrip(Tail(t)) ELSE t

RECURSIVE RStrip(_)
RStrip(t) ==
    IF t = << >> THEN t
    ELSE IF t[Len(t)].ch \in Whitespace THEN RStrip(SubSeq(t, 1, Len(t) - 1)) ELSE t

\* a strip that leaves the text as it is
Strip_Identity(t) == t

\* str.strip()
Strip(t) == RStrip(LStrip(t))

\* t[:k]
RECURSIVE Prefix(_, _)
Prefix(t, k) ==
    IF k <= 0 \/ t = << >> THEN EmptyText
    ELSE IF Head(t).n <= k
         THEN Concat(<< Head(t) >>, Prefix(Tail(t), k - Head(t).n))
         ELSE << Run(Head(t).ch, k) >>

\* ----------------------------------------------------------- file names
UpperChars == << "A", "B", "C", "D", "E", "F", "G", "H", "I", "J", "K", "L", "M",
                 "N", "O", "P", "Q", "R", "S", "T", "U", "V", "W", "X", "Y", "Z" >>
LowerChars == << "a", "b", "c", "d", "e", "f", "g", "h", "i", "j", "k", "l", "m",
                 "n", "o", "p", "q", "r", "s", "t", "u", "v", "w", "x", "y", "z" >>

LowerChar(c) ==
    IF \E i \in 1 .. Len(UpperChars) : UpperChars[i] = c
    THEN LowerChars[CHOOSE i \in 1 .. Len(UpperChars) : UpperChars[i] = c]
    ELSE c

\* str.lower()
Lower(s) == [i \in 1 .. Len(s) |-> LowerChar(s[i])]

\* s.split('.')[-1]
LastDotPart(s) ==
    LET dots == {i \in 1 .. Len(s) : s[i] = "."}
    IN  IF dots = {} THEN s
        ELSE SubSeq(s, (CHOOSE i \in dots : \A j \in dots : j <= i) + 1, Len(s))

\* the extension taken without lower-casing it
FileType_CaseSensitive(file_name) == LastDotPart(file_name)

\* file_type = file_name.split('.')[-1].lower()
FileType(file_name) == Lower(LastDotPart(file_name))

Pdf == << "p", "d", "f" >>
Docx == << "d", "o", "c", "x" >>
Pptx == << "p", "p", "t", "x" >>
Xlsx == << "x", "l", "s", "x" >>
allowed_types == {Pdf, Docx, Pptx, Xlsx}

\* ------------------------------------------------------ request inputs
\* Uploaded file names (request.files['file'].filename)
NameNone == << >>
NameA == << "a", ".", "p", "d", "f" >>
NameB == << "b", ".", "D", "O", "C", "X" >>
NameTxt == << "r", "e", "p", "o", "r", "t", ".", "T", "X", "T" >>
NameNoDot == << "n", "o", "t", "e", "s" >>
NameTwoDots == << "x", ".", "p", "d", "f", ".", "Z" >>
Names == {NameNone, NameA, NameB, NameTxt, NameNoDot, NameTwoDots}

\* Uploaded bytes, described by what the parsers make of them: the format the
\* bytes really are, and the pieces the parser yields (page texts for a PDF,
\* raw_text.value for a DOCX, shape texts for a PPTX, sheet CSVs for an XLSX).
PdfLong == [fmt |-> Pdf,
            parts |-> << << Run(SP, 1), Run("a", DocLimit - 1) >>,
                         << Run("b", 2), Run(NL, 1) >> >>]
PdfBlank == [fmt |-> Pdf, parts |-> << EmptyText, << Run(SP, 2) >> >>]
DocxExact == [fmt |-> Docx, parts |-> << << Run(NL, 1), Run("c", DocLimit) >> >>]
Contents == {PdfLong, PdfBlank, DocxExact}

\* X-Session-ID header: absent, or a caller-chosen token
NoHeader == "<absent>"
Headers == {NoHeader, "s1"}
\* request.headers.get('X-Session-ID', 'default')
SessionId(h) == IF h = NoHeader THEN "default" ELSE h
SessionIds == {SessionId(h) : h \in Headers}

\* JSON bodies of /ask: has |-> FALSE is a body whose parsed value is falsy
\* ({} or null); otherwise q is data.get("query"), the empty text standing for
\* a missing key as well
NoData == [has |-> FALSE, q |-> EmptyText]
Bodies == {NoData,
           [has |-> TRUE, q |-> EmptyText],
           [has |-> TRUE, q |-> << Run(SP, 2) >>],
           [has |-> TRUE, q |-> << Run("q", 1), Run(SP, 1) >>]}

\* delta.content of the k-th chunk a completion stream delivers: a fragment of
\* its own, or "" for a chunk without content
Fragments == << "x", "y", "z", "w" >>
ChunkContents(k) == {Fragments[k], ""}

\* ---------------------------------------------------------------- state
VARIABLES
    api_key,          \* os.getenv("OPENAI_API_KEY") is set and non-empty
    document_cache,   \* session id -> extracted text
    files,            \* temp directory: file name -> bytes
    req,              \* per worker thread: the request it serves
    calls             \* requests accepted so far

vars == << api_key, document_cache, files, req, calls >>

Idle == [op |-> "none", pc |-> "idle", sid |-> "default", name |-> NameNone,
         upload |-> PdfBlank, text |-> EmptyText, data |-> FALSE, query |-> EmptyText,
         status |-> 0, error |-> "", detail |-> << >>, cause |-> "",
         request |-> << >>, recv |-> << >>, out |-> << >>,
         saved |-> FALSE, removed |-> FALSE, wrote |-> FALSE, valid |-> FALSE,
         fresh |-> FALSE]

Init ==
    /\ api_key \in BOOLEAN
    /\ document_cache = << >>
    /\ files = << >>
    /\ req = [t \in Threads |-> Idle]
    /\ calls = 0

\* the handler's locals are gone once the request is over
Finish(r) == [r EXCEPT !.pc = "done", !.name = NameNone, !.upload = Idle.upload,
                       !.text = EmptyText]

\* error messages of the JSON responses
NoFile == "No file uploaded"
InvalidName == "Invalid filename"
Unsupported == "Unsupported file type: "
ExtractFailed == "Failed to extract text from "
NoText == "No text extracted from file"
MissingKey == "Server configuration error: Missing API key"
NoDocument == "No document found. Please upload a file first."
MissingData == "Missing request data"
EmptyQuery == "Query cannot be empty"

\* jsonify({"error": ...}), code
JsonError(r, code, msg) == [Finish(r) EXCEPT !.status = code, !.error = msg]

\* ------------------------------------------------------------ extraction
NewLine == << Run(NL, 1) >>

\* open()/parse of file_path as file_type succeeds
CanParse(file_path, file_type) ==
    /\ file_path \in DOMAIN files
    /\ files[file_path].fmt = file_type

\* the value extract_text_from_file returns when the parse succeeds
extract_text_from_file(content, file_type) ==
    CASE file_type = Pdf -> Strip(Join(NewLine, content.parts))
      [] file_type = Docx -> Strip(content.parts[1])
      [] file_type = Pptx -> Strip(Join(NewLine, content.parts))
      [] file_type = Xlsx -> Strip(Join(NewLine, content.parts))

\* history: the bytes are a well-formed file of the type that yields text
Extractable(content, file_type) ==
    /\ content.fmt = file_type
    /\ Strip(extract_text_from_file(content, file_type)) # EmptyText

\* ------------------------------------------------------------- /summarize
SummarizeSystem == "Summarize this document in 3-5 bullet points:"
SummarizeError == "Error generating summary: "

\* uploaded_file.save(temp_file_path)
SaveFile(path, content) ==
    [p \in DOMAIN files \cup {path} |-> IF p = path THEN content ELSE files[p]]

\* os.remove(temp_file_path), a failure being logged and dropped
RemoveFile(path) == [p \in DOMAIN files \ {path} |-> files[p]]

\* document_cache[session_id] = extracted_text
CachePut(sid, text) ==
    [s \in DOMAIN document_cache \cup {sid} |->
        IF s = sid THEN text ELSE document_cache[s]]

\* the server hands a new request to the first worker thread that is free
Free(t) ==
    /\ req[t].pc \in {"idle", "done"}
    /\ \A u \in Threads : u < t => req[u].pc \notin {"idle", "done"}

\* lines 61-88: validation of the upload, then the save to the temp path
SummarizeBegin(t) ==
    /\ Free(t)
    /\ calls < MaxCalls
    /\ calls' = calls + 1
    /\ \E hasFile \in BOOLEAN, file_name \in Names, c \in Contents, h \in Headers :
        LET r == [Idle EXCEPT !.op = "summarize", !.sid = SessionId(h)]
            file_type == FileType(file_name)
        IN  IF ~hasFile
            THEN /\ req' = [req EXCEPT ![t] = JsonError(r, 400, NoFile)]
                 /\ UNCHANGED files
            ELSE IF file_name = NameNone
            THEN /\ req' = [req EXCEPT ![t] = JsonError(r, 400, InvalidName)]
                 /\ UNCHANGED files
            ELSE IF file_type \notin allowed_types
            THEN /\ req' = [req EXCEPT ![t] =
                        [JsonError(r, 400, Unsupported)
                            EXCEPT !.name = file_name, !.detail = file_type]]
                 /\ UNCHANGED files
            ELSE /\ files' = SaveFile(file_name, c)
                 /\ req' = [req EXCEPT ![t] =
                        [r EXCEPT !.pc = "extract", !.name = file_name,
                                  !.upload = c, !.saved = TRUE,
                                  !.valid = Extractable(c, file_type)]]
    /\ UNCHANGED << api_key, document_cache >>

\* an extraction step that stores the text before it looks whether it is empty
SummarizeExtract_StoresFirst(t) ==
    /\ req[t].pc = "extract"
    /\ req[t].op = "summarize"
    /\ LET r == req[t]
           file_type == FileType(r.name)
       IN  IF ~CanParse(r.name, file_type)
           THEN /\ req' = [req EXCEPT ![t] =
                        [JsonError(r, 500, ExtractFailed)
                            EXCEPT !.detail = file_type, !.cause = "parser error"]]
                /\ UNCHANGED document_cache
           ELSE LET extracted_text == extract_text_from_file(files[r.name], file_type)
                IN  /\ document_cache' = CachePut(r.sid, extracted_text)
                    /\ IF Strip(extracted_text) = EmptyText
                       THEN req' = [req EXCEPT ![t] =
                               JsonError([r EXCEPT !.wrote = TRUE], 400, NoText)]
                       ELSE req' = [req EXCEPT ![t] =
                               [r EXCEPT !.pc = "store", !.text = extracted_text]]
    /\ UNCHANGED << api_key, files, calls >>

\* lines 90-97, and 152-154 when the extractor raises
SummarizeExtract(t) ==
    /\ req[t].pc = "extract"
    /\ req[t].op = "summarize"
    /\ LET r == req[t]
           file_type == FileType(r.name)
       IN  IF ~CanParse(r.name, file_type)
           THEN req' = [req EXCEPT ![t] =
                    [JsonError(r, 500, ExtractFailed)
                        EXCEPT !.detail = file_type,
                               !.cause = IF r.name \in DOMAIN files
                                         THEN "parser error"
                                         ELSE "No such file or directory"]]
           ELSE LET extracted_text == extract_text_from_file(files[r.name], file_type)
                IN  IF Strip(extracted_text) = EmptyText
                    THEN req' = [req EXCEPT ![t] =
                            JsonError(r, 400, NoText)]
                    ELSE req' = [req EXCEPT ![t] =
                            [r EXCEPT !.pc = "store", !.text = extracted_text]]
    /\ UNCHANGED << api_key, document_cache, files, calls >>

\* history: the ask requests of session sid no longer saw its latest upload
Overwritten(rq, sid) ==
    [u \in Threads |->
        IF rq[u].op = "ask" /\ rq[u].sid = sid
        THEN [rq[u] EXCEPT !.fresh = FALSE] ELSE rq[u]]

\* lines 99-107 and 150: the store, then the credential check
SummarizeStore(t) ==
    /\ req[t].pc = "store"
    /\ LET r == [req[t] EXCEPT !.wrote = TRUE]
           seen == Overwritten(req, r.sid)
       IN  /\ document_cache' = CachePut(r.sid, r.text)
           /\ IF ~api_key
              THEN req' = [seen EXCEPT ![t] = JsonError(r, 500, MissingKey)]
              ELSE req' = [seen EXCEPT ![t] = [r EXCEPT !.pc = "send", !.status = 200]]
    /\ UNCHANGED << api_key, files, calls >>

Message(role, lead, body) == [role |-> role, lead |-> lead, body |-> body]

\* the messages of summarize's completion request (lines 126-129)
SummarizeMessages(extracted_text) ==
    << Message("system", SummarizeSystem, EmptyText),
       Message("user", "", Prefix(extracted_text, DocLimit)) >>

\* fragments the generator yields for the chunks received (lines 134-137)
RECURSIVE Yielded(_)
Yielded(chunks) ==
    IF chunks = << >> THEN << >>
    ELSE IF Head(chunks) = "" THEN Yielded(Tail(chunks))
    ELSE << Head(chunks) >> \o Yielded(Tail(chunks))

\* str(e) of the exception the completion call or its stream raises
CompletionFailure == "completion failed"

\* a generator that restarts its output with the error text
StreamError_DropsOutput(r, prefix) ==
    [r EXCEPT !.pc = "done", !.name = NameNone, !.upload = Idle.upload,
              !.text = EmptyText, !.out = << prefix >>, !.cause = CompletionFailure]

\* the generator after `except Exception as e: yield f"...{e}"`
StreamError(r, prefix) ==
    [Finish(r) EXCEPT !.out = Append(@, prefix), !.cause = CompletionFailure]

\* lines 111-132: the completion call, which either opens the stream or raises
SummarizeSend(t) ==
    /\ req[t].pc = "send"
    /\ req[t].op = "summarize"
    /\ LET r == [req[t] EXCEPT !.request = SummarizeMessages(req[t].text)]
       IN  \E ok \in BOOLEAN :
               req' = [req EXCEPT ![t] =
                   IF ok THEN [r EXCEPT !.pc = "stream", !.upload = Idle.upload,
                                        !.text = EmptyText]
                   ELSE StreamError(r, SummarizeError)]
    /\ UNCHANGED << api_key, document_cache, files, calls >>

\* lines 134-137: the stream delivers one more chunk
SummarizeChunk(t) ==
    /\ req[t].pc = "stream"
    /\ req[t].op = "summarize"
    /\ Len(req[t].recv) < MaxChunks
    /\ \E c \in ChunkContents(Len(req[t].recv) + 1) :
           req' = [req EXCEPT ![t] =
               [req[t] EXCEPT !.recv = Append(@, c),
                              !.out = Yielded(Append(req[t].recv, c))]]
    /\ UNCHANGED << api_key, document_cache, files, calls >>

\* lines 134, 145-147: the stream raises while it is iterated
SummarizeStreamFail(t) ==
    /\ req[t].pc = "stream"
    /\ req[t].op = "summarize"
    /\ req' = [req EXCEPT ![t] = StreamError(req[t], SummarizeError)]
    /\ UNCHANGED << api_key, document_cache, files, calls >>

\* lines 134, 139-143: the stream ends and the temp file is removed
SummarizeStreamEnd(t) ==
    /\ req[t].pc = "stream"
    /\ req[t].op = "summarize"
    /\ files' = RemoveFile(req[t].name)
    /\ req' = [req EXCEPT ![t] = [Finish(req[t]) EXCEPT !.removed = TRUE]]
    /\ UNCHANGED << api_key, document_cache, calls >>

\* ------------------------------------------------------------------ /ask
AskSystem == "You are answering questions based on the following document:"
AskLead == "Based on this document, "
AskError == "Error answering question: "

\* a request that carries the whole document
AskMessages_Uncapped(document_text, query) ==
    << Message("system", AskSystem, EmptyText),
       Message("user", "", document_text),
       Message("user", AskLead, query) >>

\* the messages of ask's completion request (lines 209-213)
AskMessages(document_text, query) ==
    << Message("system", AskSystem, EmptyText),
       Message("user", "", Prefix(document_text, DocLimit)),
       Message("user", AskLead, query) >>

\* a lookup that ignores the X-Session-ID header
AskKey_SharedDefault(r) == "default"

\* the key ask looks up in document_cache for its request
AskKey(r) == r.sid

\* lines 160-168: the session's document must be present
AskBegin(t) ==
    /\ Free(t)
    /\ calls < MaxCalls
    /\ calls' = calls + 1
    /\ \E h \in Headers, body \in Bodies :
        LET r == [Idle EXCEPT !.op = "ask", !.sid = SessionId(h),
                              !.fresh = TRUE]
        IN  IF AskKey(r) \notin DOMAIN document_cache
            THEN req' = [req EXCEPT ![t] =
                    JsonError(r, 400, NoDocument)]
            ELSE req' = [req EXCEPT ![t] =
                    [r EXCEPT !.pc = "prepare", !.data = body.has, !.query = body.q]]
    /\ UNCHANGED << api_key, document_cache, files >>

\* lines 170-190 and 228: the body, the stored text, the credential
AskPrepare(t) ==
    /\ req[t].pc = "prepare"
    /\ LET r == req[t]
       IN  IF ~r.data
           THEN req' = [req EXCEPT ![t] = JsonError(r, 400, MissingData)]
           ELSE IF r.query = EmptyText \/ Strip(r.query) = EmptyText
           THEN req' = [req EXCEPT ![t] = JsonError(r, 400, EmptyQuery)]
           ELSE LET document_text == document_cache[AskKey(r)]
                IN  IF ~api_key
                    THEN req' = [req EXCEPT ![t] = JsonError(r, 500, MissingKey)]
                    ELSE req' = [req EXCEPT ![t] =
                            [r EXCEPT !.pc = "send", !.status = 200,
                                      !.text = document_text]]
    /\ UNCHANGED << api_key, document_cache, files, calls >>

\* lines 194-216: the completion call, which either opens the stream or raises
AskSend(t) ==
    /\ req[t].pc = "send"
    /\ req[t].op = "ask"
    /\ LET r == [req[t] EXCEPT !.request = AskMessages(req[t].text, req[t].query)]
       IN  \E ok \in BOOLEAN :
               req' = [req EXCEPT ![t] =
                   IF ok THEN [r EXCEPT !.pc = "stream", !.text = EmptyText]
                   ELSE StreamError(r, AskError)]
    /\ UNCHANGED << api_key, document_cache, files, calls >>

\* lines 218-221: the stream delivers one more chunk
AskChunk(t) ==
    /\ req[t].pc = "stream"
    /\ req[t].op = "ask"
    /\ Len(req[t].recv) < MaxChunks
    /\ \E c \in ChunkContents(Len(req[t].recv) + 1) :
           req' = [req EXCEPT ![t] =
               [req[t] EXCEPT !.recv = Append(@, c),
                              !.out = Yielded(Append(req[t].recv, c))]]
    /\ UNCHANGED << api_key, document_cache, files, calls >>

\* lines 218, 223-225: the stream raises while it is iterated
AskStreamFail(t) ==
    /\ req[t].pc = "stream"
    /\ req[t].op = "ask"
    /\ req' = [req EXCEPT ![t] = StreamError(req[t], AskError)]
    /\ UNCHANGED << api_key, document_cache, files, calls >>

\* line 218: the stream ends
AskStreamEnd(t) ==
    /\ req[t].pc = "stream"
    /\ req[t].op = "ask"
    /\ req' = [req EXCEPT ![t] = Finish(req[t])]
    /\ UNCHANGED << api_key, document_cache, files, calls >>

\* ------------------------------------------------------------------ spec
Next ==
    \E t \in Threads :
        \/ SummarizeBegin(t)
        \/ SummarizeExtract(t)
        \/ SummarizeStore(t)
        \/ SummarizeSend(t)
        \/ SummarizeChunk(t)
        \/ SummarizeStreamFail(t)
        \/ SummarizeStreamEnd(t)
        \/ AskBegin(t)
        \/ AskPrepare(t)
        \/ AskSend(t)
        \/ AskChunk(t)
        \/ AskStreamFail(t)
        \/ AskStreamEnd(t)

Spec == Init /\ [][Next]_vars

\* ================================================================ claims
AllowedNames == {NameA, NameB}
ErrorFragments == {SummarizeError, AskError}
IsSummarize(t) == req[t].op = "summarize"
IsAsk(t) == req[t].op = "ask"
Done(t) == req[t].pc = "done"
\* the document message of the completion request thread t sent
Sent(t) == req[t].request # << >>
DocumentOf(t) == req[t].request[2]

\* C1 as stated: once text T is stored for a session and no later upload for
\* that session follows, every ask for it with a non-empty (non-blank) query sends a
\* completion request whose document message is the first 15,000 characters of T.
C1_EveryAskSends ==
    \A t \in Threads :
        (/\ IsAsk(t) /\ Done(t) /\ req[t].fresh
         /\ req[t].sid \in DOMAIN document_cache
         /\ Strip(req[t].query) # EmptyText)
        => /\ Sent(t)
           /\ DocumentOf(t) =
                Message("user", "", Prefix(document_cache[req[t].sid], DocLimit))

\* C1 amended: with the credential present, an ask whose query is non-empty
\* after trimming, for a session whose stored text T no later upload replaced,
\* is answered with the stream, and the completion request it sends carries as
\* its document message exactly the first 15,000 characters of T.
C1_AskSendsStoredPrefix ==
    \A t \in Threads :
        (/\ IsAsk(t) /\ req[t].fresh /\ api_key
         /\ req[t].pc \in {"send", "stream", "done"}
         /\ Strip(req[t].query) # EmptyText)
        => /\ req[t].status = 200
           /\ req[t].sid \in DOMAIN document_cache
           /\ req[t].pc # "send" =>
                /\ Len(req[t].request) = 3
                /\ DocumentOf(t) =
                     Message("user", "", Prefix(document_cache[req[t].sid], DocLimit))
                /\ TextLen(DocumentOf(t).body) <= DocLimit

\* an ask has sent the capped document of a session whose text is longer than
\* the cap, while the other session holds a document too
C1_Witness ==
    \E t \in Threads :
        /\ IsAsk(t) /\ req[t].fresh /\ Sent(t)
        /\ TextLen(document_cache[req[t].sid]) > DocLimit
        /\ TextLen(DocumentOf(t).body) = DocLimit
        /\ DOMAIN document_cache = SessionIds

\* C2: when the only two calls are summarize calls with different session
\* ids, the text each of them stores and sends is the text extracted from its
\* own uploaded bytes, never the other call's.
C2_OwnUploadOnly ==
    \A t, u \in Threads :
        (/\ calls = 2 /\ t # u
         /\ IsSummarize(t) /\ IsSummarize(u) /\ req[t].sid # req[u].sid
         /\ req[t].pc \in {"store", "send"})
        => /\ req[t].upload.fmt = FileType(req[t].name)
           /\ req[t].text = extract_text_from_file(req[t].upload, FileType(req[t].name))

\* C3: every summarize request that wrote its upload to the temp path has
\* removed it by the time the request is over, on every exit path.
C3_TempFileRemoved ==
    \A t \in Threads :
        (IsSummarize(t) /\ Done(t) /\ req[t].saved) => req[t].removed

\* C4: an ask for a session id that holds no stored text is rejected with 400
\* and the no-document error, and makes no completion call.
C4_AskWithoutDocument ==
    \A t \in Threads :
        (IsAsk(t) /\ req[t].sid \notin DOMAIN document_cache)
        => /\ Done(t)
           /\ req[t].status = 400
           /\ req[t].error = NoDocument
           /\ ~Sent(t)
           /\ req[t].out = << >>

\* an ask was rejected for its session although the other session holds a document
C4_Witness ==
    \E t \in Threads :
        /\ IsAsk(t) /\ Done(t)
        /\ req[t].sid \notin DOMAIN document_cache
        /\ document_cache # << >>

\* C5: a parser failure on a supported type is answered with status 400, its
\* message carrying the file kind and the parser's message, never with 500.
C5_ExtractionErrorIs400 ==
    \A t \in Threads :
        (IsSummarize(t) /\ Done(t) /\ req[t].error = ExtractFailed)
        => /\ req[t].status = 400
           /\ req[t].detail \in allowed_types
           /\ req[t].cause # ""

\* C6: with the credential absent, a summarize carrying a valid extractable
\* file and an ask with a stored document and a non-empty query both return
\* 500 with the configuration error, and no completion call is attempted.
C6_MissingCredential ==
    ~api_key =>
        \A t \in Threads :
            /\ ~Sent(t)
            /\ (IsSummarize(t) /\ Done(t) /\ req[t].valid)
               => (req[t].status = 500 /\ req[t].error = MissingKey)
            /\ (IsAsk(t) /\ Done(t) /\ req[t].error # NoDocument
                         /\ Strip(req[t].query) # EmptyText)
               => (req[t].status = 500 /\ req[t].error = MissingKey)

\* C7: a summarize with no file, an empty file name or an extension outside
\* pdf, docx, pptx, xlsx is rejected with 400 before a temp file is written or
\* an extractor runs, and the message names the lower-cased extension
\* (report.TXT yields txt).
C7_UploadRejected ==
    /\ DOMAIN files \subseteq AllowedNames
    /\ \A t \in Threads :
        IsSummarize(t) =>
            /\ req[t].name = NameTxt => req[t].detail = << "t", "x", "t" >>
            /\ req[t].name = NameNoDot => req[t].detail = NameNoDot
            /\ req[t].name = NameTwoDots => req[t].detail = << "z" >>
            /\ req[t].name \in Names \ (AllowedNames \cup {NameNone})
               => req[t].error = Unsupported
            /\ req[t].error \in {NoFile, InvalidName, Unsupported}
               => /\ Done(t) /\ req[t].status = 400
                  /\ ~req[t].saved /\ ~req[t].wrote /\ ~Sent(t)
            /\ ~Done(t) => (req[t].saved /\ req[t].name \in AllowedNames)
            /\ (Done(t) /\ ~req[t].saved)
               => req[t].error \in {NoFile, InvalidName, Unsupported}

\* report.TXT was rejected with a message naming txt
C7_Witness ==
    \E t \in Threads :
        /\ IsSummarize(t) /\ Done(t) /\ req[t].name = NameTxt
        /\ req[t].error = Unsupported /\ req[t].detail = << "t", "x", "t" >>

\* C8: every value in document_cache is a non-empty string without leading or
\* trailing whitespace; an extraction that yields no text returns 400 and
\* writes no entry.
C8_StoredTextTrimmed ==
    /\ \A s \in DOMAIN document_cache :
        LET text == document_cache[s]
        IN  /\ text # EmptyText
            /\ \A i \in 1 .. Len(text) : text[i].n >= 1
            /\ text[1].ch \notin Whitespace
            /\ text[Len(text)].ch \notin Whitespace
    /\ \A t \in Threads :
        (IsSummarize(t) /\ req[t].error = NoText)
        => (Done(t) /\ req[t].status = 400 /\ ~req[t].wrote)

\* an upload without text was rejected while the store holds a document
C8_Witness ==
    /\ document_cache # << >>
    /\ \E t \in Threads : IsSummarize(t) /\ Done(t) /\ req[t].error = NoText

\* the chunks with content, in arrival order
RECURSIVE WithContent(_)
WithContent(chunks) ==
    IF chunks = << >> THEN << >>
    ELSE (IF Head(chunks) # "" THEN << Head(chunks) >> ELSE << >>)
         \o WithContent(Tail(chunks))

\* C9: when the completion fails, before or after any number of fragments, the
\* stream carries the fragments received so far in arrival order, then exactly
\* one error fragment, and ends there; otherwise it carries the fragments alone.
C9_ErrorFragmentLast ==
    \A t \in Threads :
        LET r == req[t]
            errorText == IF r.op = "ask" THEN AskError ELSE SummarizeError
        IN  /\ r.cause = CompletionFailure
               => /\ r.pc = "done"
                  /\ r.status = 200
                  /\ r.out = Append(WithContent(r.recv), errorText)
            /\ r.cause # CompletionFailure => r.out = WithContent(r.recv)

\* a stream failed after it had delivered every fragment the bound allows
C9_Witness ==
    \E t \in Threads :
        /\ req[t].cause = CompletionFailure
        /\ Len(req[t].out) = MaxChunks + 1
        /\ req[t].out[Len(req[t].out)] \in ErrorFragments

\* C10 as stated: a summarize that ends in a JSON error response, the
\* missing-credential rejection included, has written no entry to the store.
C10_ErrorLeavesStore ==
    \A t \in Threads :
        (IsSummarize(t) /\ Done(t) /\ req[t].status \in {400, 500}) => ~req[t].wrote

\* C10 amended: a summarize that ends in a JSON error response other than the
\* missing-credential rejection has written no entry to the store; the
\* missing-credential rejection is returned after the entry was written.
C10_ErrorButMissingKeyLeavesStore ==
    \A t \in Threads :
        (IsSummarize(t) /\ Done(t) /\ req[t].status \in {400, 500})
        => (req[t].wrote <=> req[t].error = MissingKey)

\* a summarize was rejected for its empty text and one for the missing credential
C10_Witness ==
    /\ \E t \in Threads : IsSummarize(t) /\ Done(t) /\ req[t].error = MissingKey
                          /\ req[t].wrote
    /\ \E t \in Threads : IsSummarize(t) /\ Done(t) /\ req[t].error = NoText

====
